---- MODULE Spec2Model ----
(***************************************************************************)
(* RocksEngine (src/src/rocks_engine.cpp): the ident -> prefix registry,   *)
(* the dropped-prefix tracker, startup recovery and the deferred purge of  *)
(* dropped prefixes, over a key-value store with a write-ahead log.        *)
(***************************************************************************)
EXTENDS Integers, Sequences, FiniteSets, TLC

\* ------------------------------------------------------------- bounds
\* Largest value _maxPrefix may reach (guards stop allocating there).
MaxPrefix == 3
\* Longest tail of unsynced writes kept apart from the durable contents;
\* a longer tail has its oldest write reach the disk.
MaxWal == 1

Threads == {1, 2}
\* "a" is an ordinary collection or index ident, "o" the ident of the oplog
\* collection (createRecordStore dispatches on NamespaceString::oplog(ns)).
Idents == {"a", "o"}
NoIdent == ""
\* Prefix 0 holds the metadata; a dropped oplog also retires prefix + 1.
Prefixes == 1..(MaxPrefix + 1)

IsOplog(ident) == ident = "o"

VARIABLES
    phase,            \* "down" | "load" | "up": the process and its constructor
    maxPrefix,        \* _maxPrefix
    identMap,         \* _identMap: ident -> prefix of its config, 0 when absent
    oplogIdent,       \* _oplogIdent
    droppedPrefixes,  \* _droppedPrefixes
    toLoad,           \* drop-markers the constructor's iterator has yet to visit
    tasks,            \* prefixes with a purge task pending in the compaction scheduler
    disk,             \* durable store contents
    wal,              \* writes accepted by the store and not yet durable, oldest first
    pc,               \* per thread: position inside the call it runs
    targ,             \* per thread: the ident argument
    tprefix,          \* per thread: local `prefix`
    tdrop,            \* per thread: prefixesToDrop not yet handed to the scheduler
    tdurable,         \* per thread: dropIdent's markers were on disk when Write returned
    recSubmitted,     \* history: compactDroppedPrefix calls made by the running constructor
    crashMarkers,     \* history: the drop-markers on disk when the process last stopped
    shutMap,          \* history: _identMap at the last clean shutdown of a run of OK calls
    runOk,            \* history: this run saw only createIdent/dropIdent calls, all OK
    filter,           \* a PrefixDeletingCompactionFilter: _droppedPrefixes and its cache
    filtered,         \* the last key given to Filter and what Filter answered
    fs,               \* the store's files under _path: column families, reopen tag, keys
    opc,              \* position of the process inside openDB
    opts,             \* _useSeparateOplogCF and readOnly of the running process
    holders,          \* openWriteTransaction / openReadTransaction: outof and used
    ticket,           \* per client and gate: "none" | "waiting" | "held"
    lastSet,          \* the last RocksTicketServerParameter::_set call and its status
    lpc,              \* getAllIdents: "idle" | "iter" | "done"
    ltodo,            \* getAllIdents: entries of _identMap its loop has yet to visit
    lresult,          \* getAllIdents: the idents pushed so far, the result at "done"
    lsnaps,           \* history: the registries (sets of idents) there were during the call
    durable,          \* _durable
    comp,             \* which of the engine's owned components are set (not released)
    ppc,              \* the RocksJournalFlusher thread's position in run()
    shuttingDown,     \* RocksJournalFlusher::_shuttingDown
    sinceFlag,        \* history: durability requests and sleeps begun since the flag was set
    slept,            \* the ms of the flusher's last sleepmillis
    spc,              \* position of the thread inside cleanShutdown
    runs              \* cleanShutdown calls begun so far

engineVars == <<phase, maxPrefix, identMap, oplogIdent, droppedPrefixes, toLoad, tasks,
                disk, wal, pc, targ, tprefix, tdrop, tdurable,
                recSubmitted, crashMarkers, shutMap, runOk>>
filterVars == <<filter, filtered>>
openVars == <<fs, opc, opts>>
ticketVars == <<holders, ticket, lastSet>>
listVars == <<lpc, ltodo, lresult, lsnaps>>
pacerVars == <<durable, comp, ppc, shuttingDown, sinceFlag, slept, spc, runs>>
auxVars == <<filterVars, openVars, ticketVars, listVars, pacerVars>>

vars == <<engineVars, auxVars>>

memVars == <<maxPrefix, identMap, oplogIdent, droppedPrefixes, toLoad, tasks>>
threadVars == <<pc, targ, tprefix, tdrop, tdurable>>
recVars == <<recSubmitted, crashMarkers, shutMap>>

\* ------------------------------------------------------------- helpers
SetMax(S) == IF S = {} THEN 0 ELSE CHOOSE x \in S : \A y \in S : y <= x
SetMin(S) == CHOOSE x \in S : \A y \in S : x <= y

NoMap == [i \in Idents |-> 0]
NoCalls == [p \in Prefixes |-> 0]

\* ------------------------------------------------------------- the store
\* The store holds, under prefix 0, one metadata record per ident
\* (kMetadataPrefix + ident -> config with "prefix") and one drop-marker per
\* dropped prefix (kDroppedPrefix + prefix); under prefix p > 0 the key <p>
\* written at allocation.
EmptyStore == [meta |-> NoMap, markers |-> {}, keys |-> {}]

\* _db->Put(kMetadataPrefix + ident, config)
PutMeta(ident, prefix) == [op |-> "meta", ident |-> ident, prefixes |-> {prefix}]
\* _db->Put(encodePrefix(prefix), "")
PutKey(prefix) == [op |-> "key", ident |-> NoIdent, prefixes |-> {prefix}]
\* dropIdent's WriteBatch: Delete(metadata-ident), Put(droppedprefix-p) for each p
DropBatch(ident, prefixes) == [op |-> "batch", ident |-> ident, prefixes |-> prefixes]
\* _db->Delete(kDroppedPrefix + prefix)
DeleteMarker(prefix) == [op |-> "unmark", ident |-> NoIdent, prefixes |-> {prefix}]

ApplyWrite(s, w) ==
    CASE w.op = "meta" -> [s EXCEPT !.meta[w.ident] = SetMax(w.prefixes)]
      [] w.op = "key" -> [s EXCEPT !.keys = @ \cup w.prefixes]
      [] w.op = "batch" -> [s EXCEPT !.meta[w.ident] = 0, !.markers = @ \cup w.prefixes]
      [] OTHER -> [s EXCEPT !.markers = @ \ w.prefixes]

RECURSIVE ApplyWrites(_, _)
ApplyWrites(s, ws) ==
    IF ws = <<>> THEN s ELSE ApplyWrites(ApplyWrite(s, Head(ws)), Tail(ws))

\* What a reader of the store sees: the durable contents and the unsynced tail.
Db == ApplyWrites(disk, wal)

\* The store after write w. A write with WriteOptions.sync forces the whole log,
\* itself included, to disk; any other write joins the unsynced tail.
Written(w, sync) ==
    IF sync
        THEN [disk |-> ApplyWrite(Db, w), wal |-> <<>>]
        ELSE LET full == Append(wal, w)
             IN  IF Len(full) > MaxWal
                     THEN [disk |-> ApplyWrite(disk, Head(full)), wal |-> Tail(full)]
                     ELSE [disk |-> disk, wal |-> full]

SetStore(r) ==
    /\ disk' = r.disk
    /\ wal' = r.wal

StoreWrite(w, sync) == SetStore(Written(w, sync))

StoreUnchanged == UNCHANGED <<disk, wal>>

\* ------------------------------------------------------------- pure parts
\* PrefixDeletingCompactionFilter::Filter for a key of prefix p >= 1 and a filter
\* built from `snapshot`: drop iff the prefix is in the snapshot.
FilterDrops(snapshot, p) == p \in snapshot

\* rocksGetNextPrefix on an encoded prefix: the oplog key tracker's prefix.
NextPrefix(p) == p + 1

\* Faulty variant of RecoverMaxPrefix, for sensitivity checks: the metadata records' prefixes are not taken in.
RecoverMaxPrefixKeysOnly(s) == SetMax(s.keys) + 1

\* Faulty variant of RecoverMaxPrefix, for sensitivity checks: the final
\* ++_maxPrefix is left out.
RecoverMaxPrefixNoReserve(s) ==
    SetMax({SetMax(s.keys)} \cup {s.meta[i] : i \in Idents})

\* The constructor's scan for _maxPrefix: the prefix of the last key, raised to
\* every metadata record's prefix, then incremented once.
RecoverMaxPrefix(s) ==
    SetMax({SetMax(s.keys)} \cup {s.meta[i] : i \in Idents}) + 1

\* Faulty variant of RecoverIdentMap, for sensitivity checks: the scan misses the first metadata record.
RecoverIdentMapShort(s) == [i \in Idents |-> IF i = "a" THEN 0 ELSE s.meta[i]]

\* The constructor's scan of kMetadataPrefix: one entry per metadata record.
RecoverIdentMap(s) == [i \in Idents |-> s.meta[i]]

\* Faulty variant of RecoverMarkers, for sensitivity checks: the scan misses the first drop-marker.
RecoverMarkersSkipFirst(s) == s.markers \ {SetMin(s.markers \cup {MaxPrefix + 1})}

\* Faulty variant of RecoverMarkers, for sensitivity checks: the constructor
\* does not look for drop-markers.
RecoverMarkersNone(s) == {}

\* The constructor's scan of kDroppedPrefix.
RecoverMarkers(s) == s.markers

\* Faulty variant of AllocPrefix, for sensitivity checks: the counter is read and not advanced.
AllocPrefixNoIncrement(mp) == mp

\* ++_maxPrefix
AllocPrefix(mp) == mp + 1

\* Faulty variant of AlreadyExists, for sensitivity checks: the check never finds the ident.
AlreadyExistsNever(ident) == FALSE

\* _identMap.find(ident) != _identMap.end()
AlreadyExists(ident) == identMap[ident] # 0

\* Faulty variant of DropBatchSync, for sensitivity checks: the batch is written without sync.
DropBatchUnsynced == FALSE

\* syncOptions.sync = true for dropIdent's batch
DropBatchSync == TRUE

\* ------------------------------------------------------------- keys and the filter
\* sizeof(uint32_t): the width of a key's prefix.
PrefixWidth == 4
\* Longest key given to a filter.
MaxKeyLen == 5
Bytes == {0, 1}
\* Keys as byte strings, the empty key and keys shorter than a prefix included.
Keys == UNION {[1..n -> Bytes] : n \in 0..MaxKeyLen}

\* extractPrefix: false on a slice shorter than 4 bytes, else the big-endian
\* value of the first four bytes.
ExtractPrefix(slice) ==
    IF Len(slice) < PrefixWidth
        THEN [ok |-> FALSE, prefix |-> 0]
        ELSE [ok |-> TRUE,
              prefix |-> ((slice[1] * 256 + slice[2]) * 256 + slice[3]) * 256 + slice[4]]

\* The snapshots a filter is built from: sets of allocated prefixes (prefix 0,
\* the metadata's, is never allocated), the empty snapshot included.
SnapshotPrefixes == {1, 256, 65536, 16777216}
Snapshots == SUBSET SnapshotPrefixes

\* PrefixDeletingCompactionFilter's constructor: _prefixCache(0), _droppedCache(false).
NewFilter(snapshot) == [dropped |-> snapshot, prefixCache |-> 0, droppedCache |-> FALSE]
\* The factory's nullptr: no filter, every key is kept.
NoFilter == NewFilter({})
NoFiltered == [called |-> FALSE, key |-> <<>>, drop |-> FALSE]

\* Faulty variant of FilterStep, for sensitivity checks: on a new prefix the
\* cached prefix is replaced and the cached answer is not.
FilterStepStale(f, key) ==
    LET r == ExtractPrefix(key)
    IN  IF ~r.ok THEN [filter |-> f, drop |-> FALSE]
        ELSE [filter |-> [f EXCEPT !.prefixCache = r.prefix], drop |-> f.droppedCache]

\* PrefixDeletingCompactionFilter::Filter on filter state f: the state it
\* leaves and its answer.
FilterStep(f, key) ==
    LET r == ExtractPrefix(key)
    IN  IF ~r.ok THEN [filter |-> f, drop |-> FALSE]
        ELSE IF r.prefix = f.prefixCache THEN [filter |-> f, drop |-> f.droppedCache]
        ELSE LET d == r.prefix \in f.dropped
             IN  [filter |-> [f EXCEPT !.prefixCache = r.prefix, !.droppedCache = d],
                  drop |-> d]

\* ------------------------------------------------------------- the store's files
\* Keys the engine keeps in the default column family.
DataKeys == {"k1", "k2"}
\* No store under _path yet.
NoStore == [exists |-> FALSE, oplogCF |-> FALSE, tag |-> FALSE, keys |-> {}]

\* rocksdb::DB::Open / OpenForReadOnly of the files f with the default column
\* family and, if wantOplog, kOplogCF: the open succeeds iff the column
\* families asked for are the store's; with create_if_missing a writable open
\* creates a missing store (default column family only) first.
DBOpen(f, wantOplog, readOnly) ==
    IF ~f.exists
        THEN IF readOnly
                 THEN [ok |-> FALSE, fs |-> f]
                 ELSE [ok |-> ~wantOplog, fs |-> [f EXCEPT !.exists = TRUE]]
        ELSE [ok |-> (wantOplog = f.oplogCF), fs |-> f]

\* Faulty variant of ReopenTagFound, for sensitivity checks: the tag is not
\* looked up.
ReopenTagIgnored(f) == FALSE

\* db->Get(ReadOptions(), ReopenTagKey, &val) is ok
ReopenTagFound(f) == f.tag

\* ------------------------------------------------------------- admission gates
Gates == {"write", "read"}
Clients == {"c1", "c2", "c3"}
\* TicketHolder openWriteTransaction(128), openReadTransaction(128)
DefaultTickets == 128
\* Largest ticket count a resize is asked for.
MaxTickets == 2
NewNums == (-1)..MaxTickets
NoSet == [gate |-> "", num |-> 0, status |-> ""]

\* Faulty variant of HolderOf, for sensitivity checks: both gates are bound to
\* the write holder.
HolderOfWrite(gate) == "write"

\* The holder behind a gate: openWriteTransaction for the write gate and its
\* parameter, openReadTransaction for the read gate and its parameter.
HolderOf(gate) == gate

\* Faulty variant of SetRejects, for sensitivity checks: zero is let through.
SetRejectsNegative(newNum) == newNum < 0

\* RocksTicketServerParameter::_set: if (newNum <= 0) return BadValue
SetRejects(newNum) == newNum <= 0

\* TicketHolder::resize(newNum) on holder h, once it can complete.
Resized(h, newNum) == [h EXCEPT !.outof = newNum]

\* ------------------------------------------------------------- pacer and shutdown
\* The components the engine owns through unique_ptr members.
Components == {"journalFlusher", "durabilityManager", "counterManager",
               "compactionScheduler", "db"}
NoComponents == {}
NoneSince == [requests |-> 0, sleeps |-> 0]
NotRunning(at) == [at |-> at, k |-> 0, by |-> ""]

\* if (!ms) ms = 100
DefaultIntervalMs == 100
\* Largest storageGlobalParams.journalCommitIntervalMs set by the operator.
MaxInterval == 2
Intervals == 0..MaxInterval

\* The ms given to sleepmillis for a configured interval.
SleepMs(ms) == IF ms = 0 THEN DefaultIntervalMs ELSE ms

\* Faulty variant of LoopExits, for sensitivity checks: the flag is not
\* looked at.
LoopNeverExits(flag) == FALSE

\* while (!_shuttingDown.load()): the loop is left once the flag is set.
LoopExits(flag) == flag

\* Faulty variant of CleanShutdownOrder, for sensitivity checks: the durability
\* manager is released before the flusher is shut down.
CleanShutdownManagerFirst ==
    <<"durabilityManager", "journalFlusher", "dropAllSnapshots", "sync",
      "counterManager", "compactionScheduler", "db">>

\* The statements of cleanShutdown, in order.
CleanShutdownOrder ==
    <<"journalFlusher", "durabilityManager", "dropAllSnapshots", "sync",
      "counterManager", "compactionScheduler", "db">>

\* The components a statement of cleanShutdown dereferences (reset() of an
\* empty unique_ptr dereferences nothing; the flusher is tested first).
Uses(stmt) == IF stmt = "sync" THEN {"counterManager"} ELSE {}

\* The component a statement of cleanShutdown releases.
Releases(stmt) == {stmt} \cap Components

\* ------------------------------------------------------------- initial state
\* The engine constructed over a fresh store.
Init ==
    /\ phase = "up"
    /\ maxPrefix = RecoverMaxPrefix(EmptyStore)
    /\ identMap = RecoverIdentMap(EmptyStore)
    /\ oplogIdent = NoIdent
    /\ droppedPrefixes = {}
    /\ toLoad = {}
    /\ tasks = {}
    /\ disk = EmptyStore
    /\ wal = <<>>
    /\ pc = [t \in Threads |-> "idle"]
    /\ targ = [t \in Threads |-> NoIdent]
    /\ tprefix = [t \in Threads |-> 0]
    /\ tdrop = [t \in Threads |-> {}]
    /\ tdurable = [t \in Threads |-> FALSE]
    /\ recSubmitted = NoCalls
    /\ crashMarkers = {}
    /\ shutMap = [ok |-> FALSE, map |-> NoMap]
    /\ runOk = TRUE
    /\ filter = NoFilter
    /\ filtered = NoFiltered
    /\ fs = NoStore
    /\ opc = "stopped"
    /\ opts = [useSeparateOplogCF |-> FALSE, readOnly |-> FALSE]
    /\ holders = [g \in Gates |-> [outof |-> DefaultTickets, used |-> 0]]
    /\ ticket = [c \in Clients |-> [g \in Gates |-> "none"]]
    /\ lastSet = NoSet
    /\ lpc = "idle"
    /\ ltodo = {}
    /\ lresult = {}
    /\ lsnaps = {}
    /\ durable = FALSE
    /\ comp = NoComponents
    /\ ppc = "none"
    /\ shuttingDown = FALSE
    /\ sinceFlag = NoneSince
    /\ slept = 0
    /\ spc = NotRunning("unbuilt")
    /\ runs = 0

\* ------------------------------------------------------------- callers
\* A step that changes _identMap while a getAllIdents call is iterating: the
\* registry it leaves is one of the registries there were during that call.
Observed ==
    /\ lsnaps' = IF lpc = "iter"
                     THEN lsnaps \cup {{i \in Idents : identMap'[i] # 0}}
                     ELSE lsnaps
    /\ UNCHANGED <<filterVars, openVars, ticketVars, pacerVars, lpc, ltodo, lresult>>

\* A thread may start a call when it runs none.
Ready == {"idle", "ret_ok", "ret_exists", "ret_err", "ret_droperr"}
CreatePcs == {"cr_meta", "cr_key", "op_meta", "op_key", "op_trk", "op_trkkey"}
DropPcs == {"dr_write", "dr_erase", "dr_insert", "dr_sched"}

\* The catalog above the engine hands dropIdent an ident no other call is using
\* (dropIdent's _getIdentConfig aborts the process on a missing ident, so a drop
\* can race neither another drop nor a create of its ident).
Dropping(i) == \E u \in Threads : pc[u] \in DropPcs /\ targ[u] = i
InUse(i) == \E u \in Threads : pc[u] \in (CreatePcs \cup DropPcs) /\ targ[u] = i

\* The call returns `status`: its locals are gone.
Returned(t, status) ==
    /\ pc' = [pc EXCEPT ![t] = status]
    /\ tprefix' = [tprefix EXCEPT ![t] = 0]
    /\ tdurable' = [tdurable EXCEPT ![t] = FALSE]

Status(ok) == IF ok THEN "ret_ok" ELSE "ret_err"

\* ------------------------------------------------------------- createIdent
\* Faulty variant of CheckThenInsert, for sensitivity checks: the prefix is allocated before the check.
CheckThenInsertAllocFirst(t, i, next) ==
    /\ targ' = [targ EXCEPT ![t] = i]
    /\ maxPrefix < MaxPrefix
    /\ maxPrefix' = AllocPrefix(maxPrefix)
    /\ IF AlreadyExists(i)
          THEN /\ Returned(t, "ret_exists")
               /\ UNCHANGED identMap
          ELSE /\ tprefix' = [tprefix EXCEPT ![t] = maxPrefix']
               /\ identMap' = [identMap EXCEPT ![i] = maxPrefix']
               /\ pc' = [pc EXCEPT ![t] = next]
               /\ UNCHANGED tdurable

\* The locked block of _createIdent and of createOplogStore: an ident already in
\* the map returns OK at once; otherwise the prefix is allocated and the config
\* enters the map, and the call goes on at `next`.
CheckThenInsert(t, i, next) ==
    /\ targ' = [targ EXCEPT ![t] = i]
    /\ IF AlreadyExists(i)
          THEN /\ Returned(t, "ret_exists")
               /\ UNCHANGED <<maxPrefix, identMap>>
          ELSE /\ maxPrefix < MaxPrefix
               /\ maxPrefix' = AllocPrefix(maxPrefix)
               /\ tprefix' = [tprefix EXCEPT ![t] = maxPrefix']
               /\ identMap' = [identMap EXCEPT ![i] = maxPrefix']
               /\ pc' = [pc EXCEPT ![t] = next]
               /\ UNCHANGED tdurable

CreateIdent(t, i) ==
    /\ phase = "up" /\ pc[t] \in Ready
    /\ ~IsOplog(i) /\ ~Dropping(i)
    /\ CheckThenInsert(t, i, "cr_meta")
    /\ UNCHANGED runOk
    /\ UNCHANGED <<phase, oplogIdent, droppedPrefixes, toLoad, tasks, disk, wal,
                   tdrop, recVars>>
    /\ Observed

\* _createIdent: Put of the metadata record; a failed Put returns its status.
CreateMetaPut(t, ok) ==
    /\ phase = "up" /\ pc[t] = "cr_meta"
    /\ IF ok
          THEN /\ StoreWrite(PutMeta(targ[t], tprefix[t]), FALSE)
               /\ pc' = [pc EXCEPT ![t] = "cr_key"]
               /\ UNCHANGED <<tprefix, tdurable, runOk>>
          ELSE /\ StoreUnchanged
               /\ Returned(t, "ret_err")
               /\ runOk' = FALSE
    /\ UNCHANGED <<phase, memVars, targ, tdrop, recVars>>
    /\ UNCHANGED auxVars

\* _createIdent: Put of the key <prefix>; its status is the call's.
CreateKeyPut(t, ok) ==
    /\ phase = "up" /\ pc[t] = "cr_key"
    /\ IF ok THEN StoreWrite(PutKey(tprefix[t]), FALSE) ELSE StoreUnchanged
    /\ Returned(t, Status(ok))
    /\ runOk' = (runOk /\ ok)
    /\ UNCHANGED <<phase, memVars, targ, tdrop, recVars>>
    /\ UNCHANGED auxVars

\* ------------------------------------------------------------- createOplogStore
CreateOplogStore(t, i) ==
    /\ phase = "up" /\ pc[t] \in Ready
    /\ IsOplog(i) /\ ~Dropping(i)
    /\ CheckThenInsert(t, i, "op_meta")
    /\ runOk' = FALSE
    /\ UNCHANGED <<phase, oplogIdent, droppedPrefixes, toLoad, tasks, disk, wal,
                   tdrop, recVars>>
    /\ Observed

\* Put of the metadata record; on failure the key Put is skipped, _oplogIdent is
\* set and the call goes on to the tracker.
OplogMetaPut(t, ok) ==
    /\ phase = "up" /\ pc[t] = "op_meta"
    /\ IF ok
          THEN /\ StoreWrite(PutMeta(targ[t], tprefix[t]), FALSE)
               /\ pc' = [pc EXCEPT ![t] = "op_key"]
               /\ UNCHANGED oplogIdent
          ELSE /\ StoreUnchanged
               /\ pc' = [pc EXCEPT ![t] = "op_trk"]
               /\ oplogIdent' = targ[t]
    /\ UNCHANGED <<phase, maxPrefix, identMap, droppedPrefixes, toLoad, tasks,
                   targ, tprefix, tdrop, tdurable, recVars, runOk>>
    /\ UNCHANGED auxVars

\* Put of the key <prefix>, then _oplogIdent = ident.
OplogKeyPut(t, ok) ==
    /\ phase = "up" /\ pc[t] = "op_key"
    /\ IF ok THEN StoreWrite(PutKey(tprefix[t]), FALSE) ELSE StoreUnchanged
    /\ oplogIdent' = targ[t]
    /\ pc' = [pc EXCEPT ![t] = "op_trk"]
    /\ UNCHANGED <<phase, maxPrefix, identMap, droppedPrefixes, toLoad, tasks,
                   targ, tprefix, tdrop, tdurable, recVars, runOk>>
    /\ UNCHANGED auxVars

\* The second locked block: oplogTrackerPrefix = ++_maxPrefix (kept in the
\* thread's prefix local from here on).
OplogTrackerAlloc(t) ==
    /\ phase = "up" /\ pc[t] = "op_trk"
    /\ maxPrefix < MaxPrefix
    /\ maxPrefix' = AllocPrefix(maxPrefix)
    /\ tprefix' = [tprefix EXCEPT ![t] = maxPrefix']
    /\ pc' = [pc EXCEPT ![t] = "op_trkkey"]
    /\ UNCHANGED <<phase, identMap, oplogIdent, droppedPrefixes, toLoad, tasks,
                   disk, wal, targ, tdrop, tdurable, recVars, runOk>>
    /\ UNCHANGED auxVars

\* Put of the key <oplogTrackerPrefix>; its status is the call's.
OplogTrackerKeyPut(t, ok) ==
    /\ phase = "up" /\ pc[t] = "op_trkkey"
    /\ IF ok THEN StoreWrite(PutKey(tprefix[t]), FALSE) ELSE StoreUnchanged
    /\ Returned(t, Status(ok))
    /\ runOk' = (runOk /\ ok)
    /\ UNCHANGED <<phase, memVars, targ, tdrop, recVars>>
    /\ UNCHANGED auxVars

\* ------------------------------------------------------------- process end
\* The process stops with the first k unsynced writes on disk: nothing held in
\* memory survives, and every caller is gone.
Die(k) ==
    /\ phase' = "down"
    /\ maxPrefix' = 0
    /\ identMap' = NoMap
    /\ oplogIdent' = NoIdent
    /\ droppedPrefixes' = {}
    /\ toLoad' = {}
    /\ tasks' = {}
    /\ pc' = [t \in Threads |-> "idle"]
    /\ targ' = [t \in Threads |-> NoIdent]
    /\ tprefix' = [t \in Threads |-> 0]
    /\ tdrop' = [t \in Threads |-> {}]
    /\ tdurable' = [t \in Threads |-> FALSE]
    /\ SetStore([disk |-> ApplyWrites(disk, SubSeq(wal, 1, k)), wal |-> <<>>])
    /\ crashMarkers' = disk'.markers
    /\ recSubmitted' = NoCalls
    /\ runOk' = FALSE

\* invariant(...) failed: the process aborts; the operating system keeps what
\* the store had written.
Abort ==
    /\ Die(Len(wal))
    /\ shutMap' = [ok |-> FALSE, map |-> NoMap]

\* ------------------------------------------------------------- dropIdent
\* The batch is prepared and prefixesToDrop computed from the ident's config and
\* _oplogIdent; _getIdentConfig's invariant aborts on an ident not in the map.
DropIdent(t, i) ==
    /\ phase = "up" /\ pc[t] \in Ready
    /\ ~InUse(i)
    /\ IF ~AlreadyExists(i)
          THEN Abort
          ELSE /\ targ' = [targ EXCEPT ![t] = i]
               /\ tprefix' = [tprefix EXCEPT ![t] = identMap[i]]
               /\ tdrop' = [tdrop EXCEPT ![t] =
                     {identMap[i]} \cup
                     (IF oplogIdent = i THEN {NextPrefix(identMap[i])} ELSE {})]
               /\ pc' = [pc EXCEPT ![t] = "dr_write"]
               /\ UNCHANGED <<phase, memVars, disk, wal, tdurable,
                              recVars, runOk>>
    /\ UNCHANGED auxVars

\* Faulty variant of DropWrite, for sensitivity checks: the status of the
\* write is not looked at.
DropWriteIgnoresStatus(t, ok) ==
    /\ phase = "up" /\ pc[t] = "dr_write"
    /\ IF ok
          THEN StoreWrite(DropBatch(targ[t], tdrop[t]), DropBatchSync)
          ELSE StoreUnchanged
    /\ pc' = [pc EXCEPT ![t] = "dr_erase"]
    /\ tdurable' = [tdurable EXCEPT ![t] = tdrop[t] \subseteq disk'.markers]
    /\ UNCHANGED <<tprefix, tdrop, runOk>>
    /\ UNCHANGED <<phase, memVars, targ, recVars>>
    /\ UNCHANGED auxVars

\* _db->Write(syncOptions, &wb); a failed write returns its status.
DropWrite(t, ok) ==
    /\ phase = "up" /\ pc[t] = "dr_write"
    /\ IF ok
          THEN /\ StoreWrite(DropBatch(targ[t], tdrop[t]), DropBatchSync)
               /\ pc' = [pc EXCEPT ![t] = "dr_erase"]
               /\ tdurable' = [tdurable EXCEPT ![t] = tdrop[t] \subseteq disk'.markers]
               /\ UNCHANGED <<tprefix, tdrop, runOk>>
          ELSE /\ StoreUnchanged
               /\ Returned(t, "ret_droperr")
               /\ tdrop' = [tdrop EXCEPT ![t] = {}]
               /\ runOk' = FALSE
    /\ UNCHANGED <<phase, memVars, targ, recVars>>
    /\ UNCHANGED auxVars

\* _identMap.erase(ident) under _identMapMutex
DropErase(t) ==
    /\ phase = "up" /\ pc[t] = "dr_erase"
    /\ identMap' = [identMap EXCEPT ![targ[t]] = 0]
    /\ pc' = [pc EXCEPT ![t] = "dr_insert"]
    /\ UNCHANGED <<phase, maxPrefix, oplogIdent, droppedPrefixes, toLoad, tasks,
                   disk, wal, targ, tprefix, tdrop, tdurable,
                   recVars, runOk>>
    /\ Observed

\* _droppedPrefixes.insert(...) of every prefix, under _droppedPrefixesMutex
DropInsert(t) ==
    /\ phase = "up" /\ pc[t] = "dr_insert"
    /\ droppedPrefixes' = droppedPrefixes \cup tdrop[t]
    /\ pc' = [pc EXCEPT ![t] = "dr_sched"]
    /\ UNCHANGED <<phase, maxPrefix, identMap, oplogIdent, toLoad, tasks,
                   disk, wal, targ, tprefix, tdrop, tdurable,
                   recVars, runOk>>
    /\ UNCHANGED auxVars

\* compactDroppedPrefix(prefix, callback): the task is queued, or the scheduler
\* refuses it and the refusal is only logged.
Scheduled(p, ok) == IF ok THEN tasks \cup {p} ELSE tasks

\* Faulty variant of DropSchedule, for sensitivity checks: a refused task ends
\* the call with the scheduler's error.
DropScheduleReturnsError(t, ok) ==
    /\ phase = "up" /\ pc[t] = "dr_sched"
    /\ LET p == SetMin(tdrop[t])
       IN  /\ tasks' = Scheduled(p, ok)
           /\ tdrop' = [tdrop EXCEPT ![t] = IF ok THEN @ \ {p} ELSE {}]
           /\ IF ~ok THEN Returned(t, "ret_err")
              ELSE IF tdrop[t] = {p}
                 THEN Returned(t, "ret_ok")
                 ELSE UNCHANGED <<pc, tprefix, tdurable>>
    /\ UNCHANGED runOk
    /\ UNCHANGED <<phase, maxPrefix, identMap, oplogIdent, droppedPrefixes, toLoad,
                   disk, wal, targ, recVars>>
    /\ UNCHANGED auxVars

\* The loop over prefixesToDrop, one prefix a step; after the last, return OK.
DropSchedule(t, ok) ==
    /\ phase = "up" /\ pc[t] = "dr_sched"
    /\ LET p == SetMin(tdrop[t])
       IN  /\ tasks' = Scheduled(p, ok)
           /\ tdrop' = [tdrop EXCEPT ![t] = @ \ {p}]
           /\ IF tdrop[t] = {p}
                 THEN Returned(t, "ret_ok")
                 ELSE UNCHANGED <<pc, tprefix, tdurable>>
    /\ UNCHANGED runOk
    /\ UNCHANGED <<phase, maxPrefix, identMap, oplogIdent, droppedPrefixes, toLoad,
                   disk, wal, targ, recVars>>
    /\ UNCHANGED auxVars

\* getRecordStore: _getIdentConfig (aborting on a missing ident), then
\* _oplogIdent = ident for the oplog namespace.
GetRecordStore(t, i) ==
    /\ phase = "up" /\ pc[t] \in Ready
    /\ ~Dropping(i)
    /\ IF ~AlreadyExists(i)
          THEN Abort
          ELSE /\ oplogIdent' = IF IsOplog(i) THEN i ELSE oplogIdent
               /\ UNCHANGED <<phase, maxPrefix, identMap, droppedPrefixes, toLoad,
                              tasks, disk, wal, threadVars,
                              recVars, runOk>>
    /\ UNCHANGED auxVars

\* ------------------------------------------------------------- background work
Running == phase \in {"load", "up"}

\* A compaction pass over the keys of prefix p: the memtable is flushed, the
\* factory builds a filter from getDroppedPrefixes() (none when the set is
\* empty), and the keys the filter drops are gone from the store.
Compacted(s, snapshot, p) ==
    IF snapshot # {} /\ FilterDrops(snapshot, p)
        THEN [s EXCEPT !.keys = @ \ {p}]
        ELSE s

\* A background compaction chosen by the store.
Compaction(p) ==
    /\ Running
    /\ p \in Db.keys
    /\ Compacted(Db, droppedPrefixes, p) # Db
    /\ SetStore([disk |-> Compacted(Db, droppedPrefixes, p), wal |-> <<>>])
    /\ UNCHANGED <<phase, memVars, threadVars, recVars, runOk>>
    /\ UNCHANGED auxVars

\* Faulty variant of PurgeCallback, for sensitivity checks: the marker is
\* deleted whatever the outcome.
PurgeCallbackAlwaysDeletes(p, opSucceeded, s) ==
    /\ droppedPrefixes' = droppedPrefixes \ {p}
    /\ SetStore([disk |-> ApplyWrite(ApplyWrites(s.disk, s.wal), DeleteMarker(p)),
                 wal |-> <<>>])

\* The completion callback given to compactDroppedPrefix: the prefix leaves
\* _droppedPrefixes; after a successful purge the marker is deleted, synced.
\* `s` is the store the purge left.
PurgeCallback(p, opSucceeded, s) ==
    /\ droppedPrefixes' = droppedPrefixes \ {p}
    /\ IF opSucceeded
          THEN SetStore([disk |-> ApplyWrite(ApplyWrites(s.disk, s.wal), DeleteMarker(p)),
                         wal |-> <<>>])
          ELSE SetStore(s)

\* A queued purge task runs: a successful one has compacted the prefix's key
\* range; either way the callback is called with the outcome.
PurgeTask(p, opSucceeded) ==
    /\ Running
    /\ p \in tasks
    /\ tasks' = tasks \ {p}
    /\ PurgeCallback(p, opSucceeded,
           IF opSucceeded
               THEN [disk |-> Compacted(Db, droppedPrefixes, p), wal |-> <<>>]
               ELSE [disk |-> disk, wal |-> wal])
    /\ UNCHANGED <<phase, maxPrefix, identMap, oplogIdent, toLoad, threadVars,
                   recVars, runOk>>
    /\ UNCHANGED auxVars

\* RocksJournalFlusher::run: waitUntilDurable(false) forces the log to disk.
JournalFlush ==
    /\ phase = "up"
    /\ wal # <<>>
    /\ SetStore([disk |-> Db, wal |-> <<>>])
    /\ UNCHANGED <<phase, memVars, threadVars, recVars, runOk>>
    /\ UNCHANGED auxVars

\* ------------------------------------------------------------- lifecycle
\* The machine or the process fails at any point: a prefix of the unsynced
\* writes has reached the disk.
Crash ==
    /\ Running
    /\ \E k \in 0..Len(wal) : Die(k)
    /\ shutMap' = [ok |-> FALSE, map |-> NoMap]
    /\ UNCHANGED auxVars

\* cleanShutdown with no call in progress: the store is closed with all it
\* was given.
CleanShutdown ==
    /\ phase = "up"
    /\ \A t \in Threads : pc[t] \in Ready
    /\ Die(Len(wal))
    /\ shutMap' = [ok |-> runOk, map |-> IF runOk THEN identMap ELSE NoMap]
    /\ UNCHANGED auxVars

\* The constructor up to ++_maxPrefix: the store is opened, _maxPrefix found and
\* _identMap loaded; the iterator holds the drop-markers present at its creation.
Recover ==
    /\ phase = "down"
    /\ phase' = "load"
    /\ maxPrefix' = RecoverMaxPrefix(Db)
    /\ identMap' = RecoverIdentMap(Db)
    /\ toLoad' = RecoverMarkers(Db)
    /\ runOk' = TRUE
    /\ UNCHANGED <<oplogIdent, droppedPrefixes, tasks, disk, wal, threadVars,
                   recVars>>
    /\ UNCHANGED auxVars

\* One turn of the drop-marker loop: the prefix enters _droppedPrefixes and its
\* purge is handed to the scheduler.
RecoverLoad(ok) ==
    /\ phase = "load"
    /\ toLoad # {}
    /\ LET p == SetMin(toLoad)
       IN  /\ droppedPrefixes' = droppedPrefixes \cup {p}
           /\ tasks' = Scheduled(p, ok)
           /\ recSubmitted' = [recSubmitted EXCEPT ![p] = @ + 1]
           /\ toLoad' = toLoad \ {p}
    /\ UNCHANGED <<phase, maxPrefix, identMap, oplogIdent, disk, wal, threadVars,
                   crashMarkers, shutMap, runOk>>
    /\ UNCHANGED auxVars

\* The end of the constructor: the engine starts serving calls.
RecoverDone ==
    /\ phase = "load"
    /\ toLoad = {}
    /\ phase' = "up"
    /\ recSubmitted' = NoCalls
    /\ crashMarkers' = {}
    /\ shutMap' = [ok |-> FALSE, map |-> NoMap]
    /\ UNCHANGED <<memVars, disk, wal, threadVars, runOk>>
    /\ UNCHANGED auxVars

\* ------------------------------------------------------------- getAllIdents
\* getAllIdents takes no lock: its loop over _identMap runs entry by entry
\* while other threads insert and erase. The call begins at the map's begin().
ListStart ==
    /\ phase = "up" /\ lpc \in {"idle", "done"}
    /\ lpc' = "iter"
    /\ ltodo' = Idents
    /\ lresult' = {}
    /\ lsnaps' = {{i \in Idents : identMap[i] # 0}}
    /\ UNCHANGED <<engineVars, filterVars, openVars, ticketVars, pacerVars>>

\* The iterator passes the place of ident i (in the map's own order): an entry
\* that is there now is pushed to the result.
ListVisit(i) ==
    /\ phase = "up" /\ lpc = "iter"
    /\ i \in ltodo
    /\ ltodo' = ltodo \ {i}
    /\ lresult' = IF identMap[i] # 0 THEN lresult \cup {i} ELSE lresult
    /\ UNCHANGED <<lpc, lsnaps>>
    /\ UNCHANGED <<engineVars, filterVars, openVars, ticketVars, pacerVars>>

\* The iterator has reached end(): the vector is returned.
ListReturn ==
    /\ phase = "up" /\ lpc = "iter"
    /\ ltodo = {}
    /\ lpc' = "done"
    /\ UNCHANGED <<ltodo, lresult, lsnaps>>
    /\ UNCHANGED <<engineVars, filterVars, openVars, ticketVars, pacerVars>>

\* The map was changed under the running loop (a data race): the iterator may
\* as well follow a dangling node and the process dies.
ListFault ==
    /\ phase = "up" /\ lpc = "iter"
    /\ Cardinality(lsnaps) > 1
    /\ Abort
    /\ lpc' = "idle"
    /\ ltodo' = {}
    /\ lresult' = {}
    /\ lsnaps' = {}
    /\ UNCHANGED <<filterVars, openVars, ticketVars, pacerVars>>

\* ------------------------------------------------------------- compaction filter
\* CreateCompactionFilter: a filter over a copy of the Dropped-Prefix Set, none
\* when the set is empty.
CreateCompactionFilter(snapshot) ==
    /\ filter' = IF snapshot = {} THEN NoFilter ELSE NewFilter(snapshot)
    /\ filtered' = NoFiltered
    /\ UNCHANGED <<engineVars, openVars, ticketVars, listVars, pacerVars>>

\* The compaction hands the filter one more key.
Filter(key) ==
    /\ filter # NoFilter
    /\ filter' = FilterStep(filter, key).filter
    /\ filtered' = [called |-> TRUE, key |-> key, drop |-> FilterStep(filter, key).drop]
    /\ UNCHANGED <<engineVars, openVars, ticketVars, listVars, pacerVars>>

\* ------------------------------------------------------------- openDB
\* A process starts on the store with its options; the constructor calls openDB.
StartProcess(useSep, readOnly) ==
    /\ opc = "stopped"
    /\ opts' = [useSeparateOplogCF |-> useSep, readOnly |-> readOnly]
    /\ opc' = "open"
    /\ UNCHANGED <<fs, engineVars, filterVars, ticketVars, listVars, pacerVars>>

\* openDB: DB::Open with the descriptors. On success the reopen tag is Put
\* (a read-only store refuses the Put) and the store is handed out; on failure
\* with _useSeparateOplogCF the default-only open is tried, without it the
\* process exits (case 1).
OpenDB ==
    /\ opc = "open"
    /\ LET r == DBOpen(fs, opts.useSeparateOplogCF, opts.readOnly)
       IN  IF r.ok
               THEN /\ fs' = [r.fs EXCEPT !.tag = @ \/ ~opts.readOnly]
                    /\ opc' = "serving"
               ELSE /\ fs' = r.fs
                    /\ opc' = IF opts.useSeparateOplogCF THEN "reopen" ELSE "exited"
    /\ UNCHANGED <<opts, engineVars, filterVars, ticketVars, listVars, pacerVars>>

\* The default-only open; if it fails too the process exits.
ReopenPlain ==
    /\ opc = "reopen"
    /\ LET r == DBOpen(fs, FALSE, opts.readOnly)
       IN  /\ fs' = r.fs
           /\ opc' = IF r.ok THEN "gettag" ELSE "exited"
    /\ UNCHANGED <<opts, engineVars, filterVars, ticketVars, listVars, pacerVars>>

\* The reopen tag is looked up: found, the store was opened before without the
\* oplog column family and the process exits (case 2).
GetReopenTag ==
    /\ opc = "gettag"
    /\ opc' = IF ReopenTagFound(fs) THEN "exited" ELSE "createcf"
    /\ UNCHANGED <<fs, opts, engineVars, filterVars, ticketVars, listVars, pacerVars>>

\* Case 3: CreateColumnFamily(kOplogCF), the store is closed and openDB calls
\* itself. On a read-only store the creation fails: assert(s.ok()) stops the
\* process or, compiled out, openDB calls itself all the same.
CreateColumnFamily ==
    /\ opc = "createcf"
    /\ IF opts.readOnly
          THEN /\ opc' \in {"exited", "open"}
               /\ UNCHANGED fs
          ELSE /\ fs' = [fs EXCEPT !.oplogCF = TRUE]
               /\ opc' = "open"
    /\ UNCHANGED <<opts, engineVars, filterVars, ticketVars, listVars, pacerVars>>

\* The engine, open for writing, puts a key into the default column family.
ServePut(k) ==
    /\ opc = "serving" /\ ~opts.readOnly
    /\ fs' = [fs EXCEPT !.keys = @ \cup {k}]
    /\ UNCHANGED <<opc, opts, engineVars, filterVars, ticketVars, listVars, pacerVars>>

\* The process ends (shutdown, crash, or quickExit done); the files stay.
StopProcess ==
    /\ opc # "stopped"
    /\ opc' = "stopped"
    /\ UNCHANGED <<fs, opts, engineVars, filterVars, ticketVars, listVars, pacerVars>>

\* ------------------------------------------------------------- tickets
Held(g) == {c \in Clients : ticket[c][g] = "held"}

\* waitForTicket on the gate's holder: a free ticket is taken, else the client
\* waits.
WaitForTicket(c, g) ==
    /\ ticket[c][g] = "none"
    /\ LET h == HolderOf(g)
       IN  IF holders[h].used < holders[h].outof
               THEN /\ holders' = [holders EXCEPT ![h].used = @ + 1]
                    /\ ticket' = [ticket EXCEPT ![c][g] = "held"]
               ELSE /\ ticket' = [ticket EXCEPT ![c][g] = "waiting"]
                    /\ UNCHANGED holders
    /\ UNCHANGED <<lastSet, engineVars, filterVars, openVars, listVars, pacerVars>>

\* A waiting client gets a ticket that has become free.
Granted(c, g) ==
    /\ ticket[c][g] = "waiting"
    /\ LET h == HolderOf(g)
       IN  /\ holders[h].used < holders[h].outof
           /\ holders' = [holders EXCEPT ![h].used = @ + 1]
    /\ ticket' = [ticket EXCEPT ![c][g] = "held"]
    /\ UNCHANGED <<lastSet, engineVars, filterVars, openVars, listVars, pacerVars>>

\* release()
Release(c, g) ==
    /\ ticket[c][g] = "held"
    /\ holders' = [holders EXCEPT ![HolderOf(g)].used = @ - 1]
    /\ ticket' = [ticket EXCEPT ![c][g] = "none"]
    /\ UNCHANGED <<lastSet, engineVars, filterVars, openVars, listVars, pacerVars>>

\* The gate's server parameter is set to newNum: _set rejects newNum <= 0 and
\* otherwise resizes the holder (a resize below the tickets in use waits).
SetParameter(g, newNum) ==
    /\ LET h == HolderOf(g)
       IN  IF SetRejects(newNum)
               THEN /\ lastSet' = [gate |-> g, num |-> newNum, status |-> "BadValue"]
                    /\ UNCHANGED holders
               ELSE /\ holders[h].used <= newNum
                    /\ holders' = [holders EXCEPT ![h] = Resized(@, newNum)]
                    /\ lastSet' = [gate |-> g, num |-> newNum, status |-> "OK"]
    /\ UNCHANGED <<ticket, engineVars, filterVars, openVars, listVars, pacerVars>>

\* ------------------------------------------------------------- journal flusher
\* The end of the constructor: the store and the managers are set and, with
\* _durable, the flusher is made and started.
Construct(d) ==
    /\ spc.at = "unbuilt"
    /\ durable' = d
    /\ comp' = (Components \ {"journalFlusher"}) \cup
                (IF d THEN {"journalFlusher"} ELSE {})
    /\ ppc' = IF d THEN "test" ELSE "none"
    /\ spc' = NotRunning("built")
    /\ UNCHANGED <<shuttingDown, sinceFlag, slept, runs>>
    /\ UNCHANGED <<engineVars, filterVars, openVars, ticketVars, listVars>>

\* run(): the loop condition.
PacerTest ==
    /\ ppc = "test"
    /\ ppc' = IF LoopExits(shuttingDown) THEN "exited" ELSE "call"
    /\ UNCHANGED <<durable, comp, shuttingDown, sinceFlag, slept, spc, runs>>
    /\ UNCHANGED <<engineVars, filterVars, openVars, ticketVars, listVars>>

\* run(): _durabilityManager->waitUntilDurable(false) is entered.
PacerRequest ==
    /\ ppc = "call"
    /\ ppc' = "flush"
    /\ sinceFlag' = IF shuttingDown
                        THEN [sinceFlag EXCEPT !.requests = @ + 1]
                        ELSE sinceFlag
    /\ UNCHANGED <<durable, comp, shuttingDown, slept, spc, runs>>
    /\ UNCHANGED <<engineVars, filterVars, openVars, ticketVars, listVars>>

\* run(): the request returns, or throws a UserException: ShutdownInProgress
\* is swallowed, any other code fails the invariant and the process aborts.
\* Then the interval is read and the sleep begins.
PacerRequestDone(outcome, ms) ==
    /\ ppc = "flush"
    /\ IF outcome = "other"
          THEN /\ ppc' = "exited"
               /\ spc' = NotRunning("crashed")
               /\ UNCHANGED <<sinceFlag, slept>>
          ELSE /\ ppc' = "sleep"
               /\ slept' = SleepMs(ms)
               /\ sinceFlag' = IF shuttingDown
                                   THEN [sinceFlag EXCEPT !.sleeps = @ + 1]
                                   ELSE sinceFlag
               /\ UNCHANGED spc
    /\ UNCHANGED <<durable, comp, shuttingDown, runs>>
    /\ UNCHANGED <<engineVars, filterVars, openVars, ticketVars, listVars>>

\* run(): sleepmillis returns.
PacerWake ==
    /\ ppc = "sleep"
    /\ ppc' = "test"
    /\ UNCHANGED <<durable, comp, shuttingDown, sinceFlag, slept, spc, runs>>
    /\ UNCHANGED <<engineVars, filterVars, openVars, ticketVars, listVars>>

\* ------------------------------------------------------------- cleanShutdown
\* cleanShutdown is called: by the layer above, or by the destructor (after
\* which the engine is gone).
CleanShutdownCall(by) ==
    /\ \/ spc.at = "built"
       \/ spc.at = "down" /\ by = "destructor"
    /\ spc' = [at |-> "run", k |-> 1, by |-> by]
    /\ runs' = runs + 1
    /\ UNCHANGED <<durable, comp, ppc, shuttingDown, sinceFlag, slept>>
    /\ UNCHANGED <<engineVars, filterVars, openVars, ticketVars, listVars>>

\* The statement after statement k, or the return of cleanShutdown.
AfterStatement(k) ==
    IF k < Len(CleanShutdownOrder)
        THEN [spc EXCEPT !.k = k + 1]
        ELSE NotRunning(IF spc.by = "destructor" THEN "destroyed" ELSE "down")

\* if (_journalFlusher) _journalFlusher->shutdown(): the flag is set and the
\* thread waits in wait().
ShutdownSignal ==
    /\ spc.at = "run" /\ CleanShutdownOrder[spc.k] = "journalFlusher"
    /\ "journalFlusher" \in comp
    /\ shuttingDown' = TRUE
    /\ spc' = [spc EXCEPT !.at = "join"]
    /\ UNCHANGED <<durable, comp, ppc, sinceFlag, slept, runs>>
    /\ UNCHANGED <<engineVars, filterVars, openVars, ticketVars, listVars>>

\* wait() returns once run() has returned; then _journalFlusher.reset().
ShutdownJoin ==
    /\ spc.at = "join"
    /\ ppc = "exited"
    /\ comp' = comp \ {"journalFlusher"}
    /\ spc' = [AfterStatement(spc.k) EXCEPT !.at = IF @ = "join" THEN "run" ELSE @]
    /\ UNCHANGED <<durable, ppc, shuttingDown, sinceFlag, slept, runs>>
    /\ UNCHANGED <<engineVars, filterVars, openVars, ticketVars, listVars>>

\* Any other statement of cleanShutdown (the flusher's when there is none
\* included). A statement that dereferences an empty unique_ptr is undefined:
\* the process dies of it, or the call goes through.
ShutdownStatement(survives) ==
    /\ spc.at = "run"
    /\ LET stmt == CleanShutdownOrder[spc.k]
       IN  /\ stmt = "journalFlusher" => "journalFlusher" \notin comp
           /\ IF Uses(stmt) \subseteq comp \/ survives
                 THEN /\ comp' = comp \ Releases(stmt)
                      /\ spc' = AfterStatement(spc.k)
                 ELSE /\ spc' = NotRunning("crashed")
                      /\ UNCHANGED comp
    /\ UNCHANGED <<durable, ppc, shuttingDown, sinceFlag, slept, runs>>
    /\ UNCHANGED <<engineVars, filterVars, openVars, ticketVars, listVars>>

\* ------------------------------------------------------------- specification
\* One step of caller t, its store writes failing or not as `oks` allows.
Caller(t, oks) ==
    \/ \E i \in Idents : CreateIdent(t, i)
    \/ \E ok \in oks : CreateMetaPut(t, ok)
    \/ \E ok \in oks : CreateKeyPut(t, ok)
    \/ \E i \in Idents : CreateOplogStore(t, i)
    \/ \E ok \in oks : OplogMetaPut(t, ok)
    \/ \E ok \in oks : OplogKeyPut(t, ok)
    \/ OplogTrackerAlloc(t)
    \/ \E ok \in oks : OplogTrackerKeyPut(t, ok)
    \/ \E i \in Idents : DropIdent(t, i)
    \/ \E ok \in oks : DropWrite(t, ok)
    \/ DropErase(t)
    \/ DropInsert(t)
    \/ \E ok \in oks : DropSchedule(t, ok)

Background ==
    \/ \E p \in Prefixes : Compaction(p)
    \/ \E p \in Prefixes, ok \in BOOLEAN : PurgeTask(p, ok)
    \/ JournalFlush

Lifecycle ==
    \/ Crash
    \/ CleanShutdown
    \/ Recover
    \/ \E ok \in BOOLEAN : RecoverLoad(ok)
    \/ RecoverDone

\* One caller at a time, over the whole life of the store; every store write
\* succeeds (purges may fail and the scheduler may refuse a task).
Next == Caller(1, {TRUE}) \/ Background \/ Lifecycle

Spec == Init /\ [][Next]_vars

\* The same, with store writes that may fail.
NextFaults == Caller(1, BOOLEAN) \/ Background \/ Lifecycle

SpecFaults == Init /\ [][NextFaults]_vars

\* Callers running concurrently on an open store.
NextConc == (\E t \in Threads : Caller(t, BOOLEAN)) \/ Background

SpecConc == Init /\ [][NextConc]_vars

\* The turn of the drop-marker loop that visits marker p.
RecoverLoadOf(p, ok) == RecoverLoad(ok) /\ p = SetMin(toLoad)

\* Some drop-marker has no purge queued: its purge failed, was refused by the
\* scheduler or was lost with the process.
LostPurge == \E p \in disk.markers : p \notin tasks

\* The scheduling the purge retry relies on: a stopped process is started
\* again and its constructor runs to the end; a process with a marker and no
\* purge for it is eventually restarted; the scheduler eventually accepts a
\* marker's task and eventually runs a queued task with success.
Fairness ==
    /\ WF_vars(Recover)
    /\ WF_vars(RecoverDone)
    /\ WF_vars(Crash /\ LostPurge)
    /\ \A p \in Prefixes : SF_vars(RecoverLoadOf(p, TRUE))
    /\ \A p \in Prefixes : SF_vars(PurgeTask(p, TRUE))

SpecLive == Spec /\ Fairness

\* One compaction filter at work.
NextFilter ==
    \/ \E snapshot \in Snapshots : CreateCompactionFilter(snapshot)
    \/ \E key \in Keys : Filter(key)

SpecFilter == Init /\ [][NextFilter]_vars

\* Processes opening the store one after the other.
NextOpen ==
    \/ \E useSep, readOnly \in BOOLEAN : StartProcess(useSep, readOnly)
    \/ OpenDB
    \/ ReopenPlain
    \/ GetReopenTag
    \/ CreateColumnFamily
    \/ \E k \in DataKeys : ServePut(k)
    \/ StopProcess

SpecOpen == Init /\ [][NextOpen]_vars

\* Clients at the two admission gates.
NextTickets ==
    \/ \E c \in Clients, g \in Gates : WaitForTicket(c, g)
    \/ \E c \in Clients, g \in Gates : Granted(c, g)
    \/ \E c \in Clients, g \in Gates : Release(c, g)
    \/ \E g \in Gates, newNum \in NewNums : SetParameter(g, newNum)

SpecTickets == Init /\ [][NextTickets]_vars

\* One caller and a getAllIdents call on an open store.
NextList ==
    \/ Caller(1, {TRUE})
    \/ ListStart
    \/ \E i \in Idents : ListVisit(i)
    \/ ListReturn
    \/ ListFault

SpecList == Init /\ [][NextList]_vars

\* The flusher thread.
Pacer ==
    \/ PacerTest
    \/ PacerRequest
    \/ \E outcome \in {"ok", "ShutdownInProgress", "other"}, ms \in Intervals :
           PacerRequestDone(outcome, ms)
    \/ PacerWake

\* An engine with its flusher, shut down by the layer above and destroyed.
NextPacer ==
    \/ \E d \in BOOLEAN : Construct(d)
    \/ Pacer
    \/ \E by \in {"caller", "destructor"} : CleanShutdownCall(by)
    \/ ShutdownSignal
    \/ ShutdownJoin
    \/ \E survives \in BOOLEAN : ShutdownStatement(survives)

SpecPacer == Init /\ [][NextPacer]_vars

\* The flusher thread is scheduled and its requests and sleeps return; the
\* thread in wait() is woken when run() has returned.
SpecPacerLive == SpecPacer /\ WF_vars(Pacer) /\ WF_vars(ShutdownJoin)

\* ------------------------------------------------------------- claims
LiveIdents == {i \in Idents : identMap[i] # 0}
LivePrefixes == {identMap[i] : i \in LiveIdents}

\* C1 (I3): in every reachable state no prefix of the Dropped-Prefix Set is the
\* prefix of an ident present in the registry.
C1_DroppedNeverLive == droppedPrefixes \cap LivePrefixes = {}

\* C2 (I1): every ident of the registry has one prefix of its own: no two idents
\* live at the same time have the same prefix.
C2_UniquePrefixes ==
    /\ \A i \in LiveIdents : identMap[i] \in Prefixes
    /\ \A i, j \in LiveIdents : i # j => identMap[i] # identMap[j]

\* Two creates run concurrently and both idents are live.
C2_TwoLiveConcurrent ==
    /\ pc[1] \in CreatePcs /\ pc[2] \in CreatePcs
    /\ Cardinality(LiveIdents) = 2

\* C3 (I4): within dropIdent the ident leaves the registry only once the batch
\* with its drop-markers is on disk; a prefix enters the Dropped-Prefix Set only
\* with its marker on disk and, in a drop, after the ident left the registry; a
\* purge is handed to the scheduler only after that insertion.
C3_DropOrder ==
    [][ /\ \A t \in Threads : (pc[t] \in DropPcs /\ phase' = "up") =>
             /\ identMap'[targ[t]] # identMap[targ[t]]
                    => (pc[t] = "dr_erase" /\ tdurable[t])
             /\ (tdrop[t] \cap (tasks' \ tasks)) # {}
                    => (pc[t] = "dr_sched" /\ identMap[targ[t]] = 0)
        /\ \A p \in droppedPrefixes' \ droppedPrefixes :
             \/ phase = "load" /\ p \in disk.markers
             \/ \E t \in Threads : /\ pc[t] = "dr_insert" /\ p \in tdrop[t]
                                   /\ tdurable[t] /\ identMap[targ[t]] = 0
      ]_vars

\* A drop has written its markers, removed the ident and inserted the prefix.
C3_DropScheduling ==
    \E t \in Threads :
        /\ pc[t] = "dr_sched" /\ tdurable[t]
        /\ identMap[targ[t]] = 0
        /\ tdrop[t] \subseteq (droppedPrefixes \cap disk.markers)

\* C4 (I5): the constructor's drop-marker loop inserts into the Dropped-Prefix
\* Set exactly the prefixes whose marker was on disk when the process stopped,
\* and calls compactDroppedPrefix once for each of them.
C4_RecoveryReloadsMarkers ==
    [][ /\ phase = "load" =>
             \A p \in droppedPrefixes' \ droppedPrefixes :
                 p \in crashMarkers /\ recSubmitted'[p] = recSubmitted[p] + 1
        /\ \A p \in Prefixes :
             recSubmitted'[p] > recSubmitted[p] => p \in droppedPrefixes'
        /\ (phase = "load" /\ phase' = "up") =>
             \A p \in Prefixes :
                 recSubmitted[p] = IF p \in crashMarkers THEN 1 ELSE 0
      ]_vars

\* Recovery after a crash that left a drop-marker: the prefix is in the set and
\* its purge is queued again.
C4_MarkerReloaded ==
    /\ phase = "load" /\ toLoad = {}
    /\ crashMarkers # {}
    /\ droppedPrefixes = crashMarkers
    /\ tasks = crashMarkers

\* C5 (I2): on an open store the Max-Prefix Counter is at least every prefix ever
\* allocated in the store's lifetime, of which the store's keys, metadata
\* records and drop-markers each name one.
C5_CounterCoversLifetime ==
    phase = "up" =>
        \A p \in disk.markers \cup disk.keys \cup {disk.meta[i] : i \in Idents} :
            maxPrefix >= p

\* C6 as stated: the counter is strictly greater than every prefix assigned.
C6_CounterStrictlyGreater ==
    phase = "up" => \A p \in LivePrefixes : maxPrefix > p

\* C6 as amended: the counter is greater than or equal to every prefix assigned
\* on the open store (it equals the one assigned last).
C6_CounterAtLeast ==
    phase = "up" =>
        /\ \A p \in LivePrefixes : maxPrefix >= p
        /\ \A t \in Threads : pc[t] \in CreatePcs => maxPrefix >= tprefix[t]

\* A create has just assigned the counter's value.
C6_JustAssigned ==
    phase = "up" /\ \E t \in Threads : pc[t] = "cr_meta" /\ tprefix[t] = maxPrefix

\* C7: of the callers creating one ident concurrently only one passes the
\* check-then-insert, so one prefix is allocated and one metadata record put;
\* the registry holds that caller's prefix, which the record carries and every
\* other caller observes.
C7_OneCreatorPerIdent ==
    /\ \A t, u \in Threads :
           (t # u /\ pc[t] \in CreatePcs /\ pc[u] \in CreatePcs) => targ[t] # targ[u]
    /\ \A t \in Threads :
           pc[t] \in {"cr_meta", "cr_key", "op_meta", "op_key"}
               => identMap[targ[t]] = tprefix[t]
    /\ \A t \in Threads :
           pc[t] \in {"cr_key", "op_key"} => Db.meta[targ[t]] = tprefix[t]

\* One caller is between the insert and its Puts while another has returned
\* "already exists" for the same ident.
C7_SecondCallerReturned ==
    \E t, u \in Threads :
        /\ t # u /\ pc[t] \in {"cr_meta", "cr_key"}
        /\ pc[u] = "ret_exists" /\ targ[u] = targ[t]

\* C8: an ident visible in the in-memory map has its metadata record in the
\* store (a drop in progress aside).
C8_VisibleOnlyIfPersisted ==
    \A i \in LiveIdents : Dropping(i) \/ Db.meta[i] = identMap[i]

\* C9: createIdent (createOplogStore) on an ident already registered returns OK
\* and leaves the counter, the map and the store as they were.
C9_CreateExistingIsNoOp ==
    [][ \A t \in Threads :
          ( /\ pc[t] \in Ready
            /\ pc'[t] \in {"cr_meta", "op_meta", "ret_exists"}
            /\ (pc'[t] # pc[t] \/ targ'[t] # targ[t])
            /\ identMap[targ'[t]] # 0 )
          => (pc'[t] = "ret_exists" /\ UNCHANGED <<maxPrefix, identMap, disk, wal>>)
      ]_vars

\* A create has returned at "already exists".
C9_ReturnedExists ==
    \E t \in Threads : pc[t] = "ret_exists" /\ identMap[targ[t]] # 0

C11_RecoveryRoundTrip ==
    /\ phase = "load" =>
           /\ \A i \in Idents : identMap[i] = Db.meta[i]
           /\ \A p \in Db.keys \cup {Db.meta[i] : i \in Idents} : maxPrefix >= p + 1
    /\ (phase = "load" /\ Db.meta = NoMap) => LiveIdents = {}

\* The constructor has rebuilt an entry from a metadata record.
C11_RecordReloaded ==
    /\ phase = "load"
    /\ \E i \in Idents : Db.meta[i] # 0 /\ identMap[i] = Db.meta[i]
                         /\ maxPrefix > Db.meta[i]

\* C12: no call stops the process: with neither crash nor shutdown in play, a
\* dropIdent (lookup) of an ident not in the registry returns an error and the
\* engine stays up with its registry as it was.
C12_UnknownIdentReturnsError ==
    [][phase = "up" => phase' = "up"]_vars

\* C13: a dropIdent goes on past its batch write only with the batch in the
\* store; otherwise it returns the write's error at once, and then the ident
\* is still registered and the store, the Dropped-Prefix Set and the
\* scheduler's queue are as they were.
C13_FailedDropNotCommitted ==
    [][ \A t \in Threads :
          (pc[t] = "dr_write" /\ pc'[t] # "dr_write" /\ phase' = "up")
          => IF pc'[t] = "ret_droperr"
                 THEN /\ identMap' = identMap /\ identMap[targ[t]] # 0
                      /\ UNCHANGED <<droppedPrefixes, tasks, disk, wal>>
                 ELSE /\ pc'[t] = "dr_erase"
                      /\ tdrop[t] \subseteq Db'.markers
                      /\ Db'.meta[targ[t]] = 0
      ]_vars

\* A dropIdent has returned its write's error and the ident is still registered.
C13_DropReturnedError ==
    \E t \in Threads : pc[t] = "ret_droperr" /\ identMap[targ[t]] # 0

\* C14: a purge completion takes its prefix out of the Dropped-Prefix Set; a
\* drop-marker leaves the store only in a completion for its prefix; and a
\* completion after which the keys of the prefix are still there (the purge
\* did not succeed) leaves the marker in the store.
C14_PurgeCompletion ==
    [][ \A p \in Prefixes :
          /\ (p \in tasks /\ p \notin tasks' /\ phase' # "down")
                => p \notin droppedPrefixes'
          /\ (p \in Db.markers /\ p \notin Db'.markers)
                => (p \in tasks /\ p \notin tasks' /\ phase' # "down")
          /\ ( /\ p \in tasks /\ p \notin tasks' /\ phase' # "down"
               /\ p \in droppedPrefixes /\ p \in Db'.keys /\ p \in Db.markers )
                => p \in Db'.markers
      ]_vars

\* A purge has completed without success: its prefix is out of the set, no
\* task is queued for it and its marker is still on disk.
C14_FailedPurgeKeepsMarker ==
    /\ phase = "up" /\ \A t \in Threads : pc[t] \in Ready
    /\ \E p \in disk.markers : p \notin droppedPrefixes /\ p \notin tasks
                               /\ p \in Db.keys

\* C17: the oplog table's secondary prefix is its primary prefix plus one, and
\* that value is no other ident's prefix.
C17_SecondaryIsNext ==
    /\ \A t \in Threads :
           pc[t] = "op_trkkey" => tprefix[t] = NextPrefix(identMap[targ[t]])
    /\ \A o, i \in LiveIdents :
           IsOplog(o) => identMap[i] # NextPrefix(identMap[o])

\* C15 as stated, its safety part: when the constructor ends, every drop-marker
\* whose purge has not completed has a purge queued.
C15_MarkerHasPendingPurge ==
    [][ (phase = "load" /\ phase' = "up")
            => \A p \in disk.markers : p \in tasks \/ p \notin droppedPrefixes ]_vars

\* C15 as amended: under the fairness of SpecLive (which includes that the
\* scheduler eventually accepts a marker's task) every drop-marker on disk is
\* eventually deleted, which only a successful purge of its prefix does.
C15_PurgeEventually ==
    \A p \in Prefixes : (p \in disk.markers) ~> (p \notin disk.markers)

\* A purge submitted again by the running constructor has succeeded: the
\* marker that was on disk when the process stopped is deleted.
C15_ReloadedPurgeDone ==
    /\ phase = "load"
    /\ \E p \in crashMarkers : recSubmitted[p] = 1 /\ p \notin disk.markers

\* The reference decision: drop iff the key has at least 4 bytes and the
\* big-endian number its first 4 bytes spell is in the snapshot.
BigEndian32(key) ==
    key[1] * 16777216 + key[2] * 65536 + key[3] * 256 + key[4]
ReferenceDrop(snapshot, key) ==
    Len(key) >= 4 /\ BigEndian32(key) \in snapshot

\* C16: whatever keys a filter built from snapshot S was given before, in
\* whatever order, its answer for a key is the reference decision for S.
C16_FilterMatchesReference ==
    filtered.called => filtered.drop = ReferenceDrop(filter.dropped, filtered.key)

\* A filter has answered "drop" for a key longer than its prefix.
C16_KeyDropped ==
    filtered.called /\ filtered.drop /\ Len(filtered.key) > PrefixWidth

\* C18 as stated: an open asking for the oplog column family on a store opened
\* before with the default one only does not end in the process exiting.
C18_ReopenWithExtraGroupSucceeds ==
    ~(opc = "exited" /\ opts.useSeparateOplogCF /\ fs.tag /\ ~fs.oplogCF)

\* C18 as amended: openDB adds the oplog column family only to a store without
\* reopen tag (never opened with success before); asked for it on a store that
\* has the tag and only the default column family, it exits and leaves the
\* store as it is. An openDB that ends well leaves the column families that
\* were asked for, and no openDB loses a key of the default column family.
C18_ExtraGroupOnlyFirstTime ==
    [][ /\ (fs'.oplogCF /\ ~fs.oplogCF) => ~fs.tag
        /\ (opc = "gettag" /\ fs.tag /\ opc' # "stopped") => (opc' = "exited" /\ fs' = fs)
        /\ opc' = "serving" => (fs'.exists /\ fs'.oplogCF = opts'.useSeparateOplogCF)
        /\ fs.keys \subseteq fs'.keys
      ]_vars

\* The process has exited on a store that holds keys, has the tag and no oplog
\* column family, the extra group having been asked for.
C18_ExitedInconsistent ==
    /\ opc = "exited" /\ opts.useSeparateOplogCF /\ ~opts.readOnly
    /\ fs.tag /\ ~fs.oplogCF /\ fs.keys # {}

\* C19: a gate never has more tickets held than its total; a client comes to
\* hold a ticket only in a step that found fewer tickets in use than the total,
\* one client a step; and a gate's holder changes only in a step of that gate
\* (a client of it, or its parameter).
C19_GatesBounded ==
    [][ \A g \in Gates :
          /\ Cardinality(Held(g)) <= holders[g].outof
          /\ holders[g].used = Cardinality(Held(g))
          /\ \A c \in Clients :
                (ticket[c][g] # "held" /\ ticket'[c][g] = "held")
                    => /\ Cardinality(Held(g)) < holders[g].outof
                       /\ \A d \in Clients \ {c} : ticket'[d] = ticket[d]
          /\ holders'[g] # holders[g]
                => \/ \E c \in Clients : ticket'[c][g] # ticket[c][g]
                   \/ (lastSet'.gate = g /\ lastSet'.status = "OK")
      ]_vars

\* Every ticket of the write gate is held, a client waits for one, and the read
\* gate has a ticket out as well.
C19_ClientBlocked ==
    /\ Cardinality(Held("write")) = holders["write"].outof
    /\ \E c \in Clients : ticket[c]["write"] = "waiting"
    /\ Held("read") # {}

\* C20: a _set with a value <= 0 returns BadValue and leaves the gate's total
\* and its tickets in use as they were.
C20_NonPositiveRejected ==
    [][ (lastSet' # lastSet /\ lastSet'.num <= 0)
            => (lastSet'.status = "BadValue" /\ holders' = holders) ]_vars

\* A resize to 0 was refused while tickets of the gate were out.
C20_ZeroRefused ==
    /\ lastSet.status = "BadValue" /\ lastSet.num = 0
    /\ Held(lastSet.gate) # {}

\* C25: a compactDroppedPrefix call of dropIdent that queues nothing (the
\* scheduler refused the task) changes neither the registry, nor the
\* Dropped-Prefix Set, nor the store: the ident stays out of the registry, and
\* after the last prefix the call returns OK. In the constructor a refused
\* task leaves the prefix in the set and its marker in the store, and the
\* constructor goes on.
C25_ScheduleFailureKeepsDrop ==
    [][ /\ \A t \in Threads :
             (pc[t] = "dr_sched" /\ tdrop'[t] # tdrop[t] /\ tasks' = tasks
                 /\ phase' = "up")
             => /\ identMap' = identMap /\ identMap[targ[t]] = 0
                /\ UNCHANGED <<droppedPrefixes, disk, wal>>
                /\ pc'[t] \in {"dr_sched", "ret_ok"}
                /\ tdrop'[t] = {} => pc'[t] = "ret_ok"
        /\ (phase = "load" /\ toLoad' # toLoad /\ tasks' = tasks /\ phase' = "load")
             => /\ (toLoad \ toLoad') \subseteq (droppedPrefixes' \cap disk'.markers)
                /\ UNCHANGED <<identMap, disk, wal>>
      ]_vars

\* dropIdent's call for the oplog's own prefix was refused and the call has
\* gone on to the tracker's prefix: the ident is out of the registry, the
\* refused prefix in the Dropped-Prefix Set with its marker on disk, and no
\* purge is queued for it.
C25_DroppedWithoutPurge ==
    /\ phase = "up"
    /\ \E t \in Threads :
         /\ pc[t] = "dr_sched" /\ identMap[targ[t]] = 0
         /\ tdrop[t] = {NextPrefix(tprefix[t])}
         /\ tprefix[t] \in (droppedPrefixes \cap disk.markers) \ tasks

\* C27: once a create has returned an error, its ident is in the registry only
\* if the store holds the ident's metadata record.
C27_FailedCreateNotRegistered ==
    \A t \in Threads :
        (phase = "up" /\ pc[t] = "ret_err" /\ ~InUse(targ[t]))
            => (identMap[targ[t]] = 0 \/ Db.meta[targ[t]] = identMap[targ[t]])

\* C28: when the process stops inside a dropIdent, the store is left with
\* either the ident's metadata record and none of the drop-markers of its
\* prefixes, or no metadata record and all of them; and the constructor never
\* ends with an ident that is in the registry while its prefix is in the
\* Dropped-Prefix Set.
C28_DropCrashAtomic ==
    [][ /\ \A t \in Threads :
             (pc[t] \in {"dr_write", "dr_erase", "dr_insert"} /\ phase' = "down")
             => \/ disk'.meta[targ[t]] # 0 /\ tdrop[t] \cap disk'.markers = {}
                \/ disk'.meta[targ[t]] = 0 /\ tdrop[t] \subseteq disk'.markers
        /\ (phase = "load" /\ phase' = "up")
             => \A i \in Idents :
                    identMap[i] # 0 => identMap[i] \notin droppedPrefixes
      ]_vars

\* C24: a dropIdent of the oplog table, created with its tracker prefix p + 1
\* (whose key is in the store), retires the table's prefix p and p + 1: from
\* its batch to its insertion into the Dropped-Prefix Set, prefixesToDrop holds
\* both.
C24_OplogDropRetiresBoth ==
    \A t \in Threads :
        ( /\ pc[t] \in {"dr_write", "dr_erase", "dr_insert"} /\ IsOplog(targ[t])
          /\ NextPrefix(tprefix[t]) \in Db.keys )
            => tdrop[t] = {tprefix[t], NextPrefix(tprefix[t])}

\* C22: while the constructor still has drop-markers to load, no compaction
\* runs with a filter (a filter that drops keys was built from a snapshot of
\* the Dropped-Prefix Set taken by then); and no call is served before the
\* constructor has ended.
C22_StartupOrder ==
    [][ /\ (phase = "load" /\ toLoad # {} /\ phase' = "load") => Db'.keys = Db.keys
        /\ phase # "up" => \A t \in Threads : pc'[t] = "idle"
      ]_vars

\* C23: the idents getAllIdents returns are the registry as it was at one
\* moment of the call.
C23_ListIsSnapshot ==
    lpc = "done" => lresult \in lsnaps

\* C21: a durability request of the flusher is in progress only while the
\* durability manager and the store are set; once the flusher is released
\* (shutdown() has returned), or the manager or the store is, the flusher
\* thread has exited; and there is a flusher thread only with _durable.
C21_ShutdownIsJoin ==
    /\ ppc \in {"call", "flush"} => {"durabilityManager", "db"} \subseteq comp
    /\ (spc.at \in {"built", "run", "join", "down", "destroyed"}
           /\ ~({"journalFlusher", "durabilityManager", "db"} \subseteq comp))
         => ppc \in {"none", "exited"}
    /\ ppc # "none" => durable
    /\ (spc.at # "unbuilt" /\ ~durable)
         => (ppc = "none" /\ "journalFlusher" \notin comp)

\* cleanShutdown is about to release the durability manager: the flusher, which
\* began a request after the flag was set, has exited.
C21_JoinedAfterRequest ==
    /\ spc.at = "run" /\ CleanShutdownOrder[spc.k] = "durabilityManager"
    /\ durable /\ ppc = "exited"
    /\ sinceFlag.requests = 1
    /\ "durabilityManager" \in comp /\ "journalFlusher" \notin comp

\* C26: once the flag is set the flusher begins at most one more durability
\* request and one more sleep; a sleep lasts the configured interval, or 100 ms
\* when that is 0; and, the flusher being scheduled and its requests
\* returning, a thread waiting in shutdown() eventually gets out of it.
C26_ShutdownTerminates ==
    /\ [](sinceFlag.requests <= 1 /\ sinceFlag.sleeps <= 1)
    /\ [](ppc = "sleep" => slept \in ((1..MaxInterval) \cup {DefaultIntervalMs}))
    /\ (spc.at = "join") ~> (spc.at # "join")

\* shutdown() has returned after the flusher, caught by the flag between its
\* test and its request, did one more request and one more sleep of 100 ms.
C26_OneMoreRound ==
    /\ spc.at = "run" /\ spc.k = 2
    /\ ppc = "exited"
    /\ sinceFlag = [requests |-> 1, sleeps |-> 1]
    /\ slept = DefaultIntervalMs

\* C29: in a first or a second run of cleanShutdown, no statement is reached
\* with a component it dereferences already released.
C29_SecondRunSafe ==
    (spc.at = "run" /\ runs \in {1, 2})
        => Uses(CleanShutdownOrder[spc.k]) \subseteq comp
====
